---- MODULE Spec2Model ----
(***************************************************************************)
(* probability::WindowedMedian (src/probability/windowed_median.cpp):      *)
(* the median of a sliding window over a stream of ints, kept by a list    *)
(* (_window), a std::multiset (_sortedValues) and an iterator into the     *)
(* multiset (_itMedian) that insert moves one step at a time.              *)
(*                                                                         *)
(* _sortedValues is the sequence of the multiset's nodes in iteration      *)
(* order; _itMedian is the 1-based index of the node it points to, so an   *)
(* insertion or a removal in front of that node shifts the index while the *)
(* iterator keeps denoting the same node.                                  *)
(***************************************************************************)
EXTENDS Integers, Sequences, FiniteSets

VARIABLES _windowSize, _window, _sortedValues, _itMedian, pc, vals, ret

vars == <<_windowSize, _window, _sortedValues, _itMedian, pc, vals, ret>>

(***************************************************************************)
(* Bounds of the explored inputs.                                          *)
(***************************************************************************)
MaxW == 4
MaxInserts == 6
Values == {-7, 3, 16777217}
WindowSizes == (-1) .. MaxW

(***************************************************************************)
(* The hand-picked streams of main().                                      *)
(***************************************************************************)
MainTests ==
    { [vals |-> <<1, 2, 3, 4, 5, 6, 7, 8, 9>>, windowSize |-> 3],
      [vals |-> <<9, 8, 7, 6, 5, 4, 3, 2, 1>>, windowSize |-> 3],
      [vals |-> <<9, 8, 7, 6, 5, 4, 5, 6>>, windowSize |-> 4],
      [vals |-> <<3, 3, 3, 3, 3, 3, 3, 3, 3>>, windowSize |-> 3],
      [vals |-> <<3, 3, 3, 3, -7, 3, 3, 3, 3>>, windowSize |-> 3],
      [vals |-> <<4, 3, 3, -5, 7, 1, 3, 4, 5>>, windowSize |-> 5],
      [vals |-> <<470211272, 101027544, 1457850878, 1458777923, 2007237709,
                  823564440, 1115438165, 1784484492, 74243042, 114807987>>,
       windowSize |-> 6] }

IsPrefix(s, t) == Len(s) <= Len(t) /\ SubSeq(t, 1, Len(s)) = s

\* The values a caller may pass to the next insert: a bounded arbitrary
\* stream (the random loop of main), or the next value of a stream of main.
CanFeed(v) ==
    \/ Len(vals) < MaxInserts /\ v \in Values
    \/ \E t \in MainTests : /\ t.windowSize = _windowSize
                            /\ IsPrefix(Append(vals, v), t.vals)

FeedValues == Values \cup UNION { {t.vals[i] : i \in 1 .. Len(t.vals)} : t \in MainTests }

(***************************************************************************)
(* float: IEEE-754 binary32, round to nearest, ties to even.  Every float  *)
(* the program computes is a multiple of 1/2, written <<q, r>> for the     *)
(* value q + r/2 with r in {0, 1}.                                         *)
(***************************************************************************)
Exponent(w) == CHOOSE e \in 0 .. 7 :
                   /\ (w \div (2 ^ e)) < 2 ^ 24
                   /\ \A d \in 0 .. 7 : (w \div (2 ^ d)) < 2 ^ 24 => e <= d

\* Rounds the magnitude w + h/2 to 24 significant bits.
RoundMag(w, h) ==
    IF w < 2 ^ 23 THEN <<w, h>>
    ELSE LET u    == 2 ^ Exponent(w)
             lo   == w - (w % u)
             rem2 == 2 * (w % u) + h
             up   == rem2 > u \/ (rem2 = u /\ (lo \div u) % 2 = 1)
         IN  <<IF up THEN lo + u ELSE lo, 0>>

RoundFloat(x) ==
    IF x[1] >= 0 THEN RoundMag(x[1], x[2])
    ELSE LET m == IF x[2] = 0 THEN RoundMag(-x[1], 0) ELSE RoundMag(-x[1] - 1, 1)
         IN  IF m[2] = 0 THEN <<-m[1], 0>> ELSE <<-m[1] - 1, 1>>

\* The implicit conversion int -> float.
IntToFloat(a) == RoundFloat(<<a, 0>>)

\* 0.5f * a for an int a: the conversion, then an exact halving.
HalfF(a) == LET f == IntToFloat(a)[1] IN <<f \div 2, f % 2>>

\* The float sum x + y.
AddF(x, y) == RoundFloat(<<x[1] + y[1] + ((x[2] + y[2]) \div 2), (x[2] + y[2]) % 2>>)

(***************************************************************************)
(* std::multiset<int> and its iterators.                                   *)
(***************************************************************************)
\* A default-constructed iterator, and an iterator to an erased node.
Singular == 0
Dangling == -1

End(s) == Len(s) + 1

\* A slip: the lower bound, which places the value before the entries equal
\* to it.
UpperBound_Lower(s, v) == Cardinality({i \in 1 .. Len(s) : s[i] < v}) + 1

\* multiset::insert places the value after the entries equal to it.
UpperBound(s, v) == Cardinality({i \in 1 .. Len(s) : s[i] <= v}) + 1

InsertAt(s, p, v) == SubSeq(s, 1, p - 1) \o <<v>> \o SubSeq(s, p, Len(s))

\* A slip: the last entry equal to v instead of the first.
Find_Last(s, v) ==
    IF \E i \in 1 .. Len(s) : s[i] = v
    THEN CHOOSE i \in 1 .. Len(s) : s[i] = v /\ \A j \in i + 1 .. Len(s) : s[j] # v
    ELSE End(s)

\* multiset::find: the first entry equal to v, end() when there is none.
Find(s, v) ==
    IF \E i \in 1 .. Len(s) : s[i] = v
    THEN CHOOSE i \in 1 .. Len(s) : s[i] = v /\ \A j \in 1 .. i - 1 : s[j] # v
    ELSE End(s)

\* The sequence without its element at r.
RemoveAt(s, r) == SubSeq(s, 1, r - 1) \o SubSeq(s, r + 1, Len(s))

\* A slip: erase by key, which unlinks every entry equal to the one at r.
Erase_ByKey(s, r) ==
    IF r \in 1 .. Len(s) THEN SelectSeq(s, LAMBDA x : x # s[r]) ELSE s

\* multiset::erase(iterator): unlinks the one node at r.
Erase(s, r) == RemoveAt(s, r)

\* The index of the node an iterator denotes, after a node was linked in at p.
ShiftOnInsert(it, p) == IF it >= 1 /\ it >= p THEN it + 1 ELSE it

\* ... and after the node at r was unlinked and freed.
ShiftOnErase(it, r) ==
    IF it < 1 THEN it
    ELSE IF it = r THEN Dangling
    ELSE IF it > r THEN it - 1
    ELSE it

\* What a read through an invalid iterator may yield.
Garbage == Values \cup {0}

Dereferenceable(s, it) == it \in 1 .. Len(s)

\* *it
Deref(s, it) == IF Dereferenceable(s, it) THEN {s[it]} ELSE Garbage

\* Where an iterator may be after a step the standard leaves undefined.
Wild(s) == {Dangling} \cup (1 .. End(s))

\* ++it
Incr(s, it) == IF Dereferenceable(s, it) THEN {it + 1} ELSE Wild(s)

\* --it
Decr(s, it) == IF it \in 2 .. End(s) THEN {it - 1} ELSE Wild(s)

\* std::next(it)
NextIt(s, it) == IF Dereferenceable(s, it) THEN it + 1 ELSE Dangling

(***************************************************************************)
(* WindowedMedian                                                          *)
(***************************************************************************)
NoRet == [kind |-> "none", val |-> <<0, 0>>]
Returned(f) == [kind |-> "value", val |-> f]

\* explicit WindowedMedian(int windowSize)
Init ==
    /\ _windowSize \in WindowSizes \cup {t.windowSize : t \in MainTests}
    /\ _window = <<>>
    /\ _sortedValues = <<>>
    /\ _itMedian = Singular
    /\ pc = "idle"
    /\ vals = <<>>
    /\ ret = NoRet

\* A slip: an off-by-one that lets the window grow to _windowSize + 1.
ExceedsWindow_Late(sz, w) == IF w < 0 THEN FALSE ELSE sz > w + 1

\* A slip: >= for >, which evicts as soon as the window is full.
ExceedsWindow_Ge(sz, w) == IF w < 0 THEN FALSE ELSE sz >= w

\* _window.size() > _windowSize: the int is converted to size_t, so that a
\* negative _windowSize compares as a value above every size.
ExceedsWindow(sz, w) == IF w < 0 THEN FALSE ELSE sz > w

\* A slip: > for >= in the second test, which leaves the cursor behind when a
\* duplicate of the median is inserted.
InsertMove_Gt(s, it, value) ==
    LET sz == Len(s)
    IN  UNION { IF value < cur /\ sz % 2 = 0 THEN Decr(s, it)
                ELSE IF value > cur /\ sz % 2 # 0 THEN Incr(s, it)
                ELSE {it} : cur \in Deref(s, it) }

\* A slip: <= for < in the first test, which treats an inserted duplicate of
\* the median as if it were placed before it.
InsertMove_Le(s, it, value) ==
    LET sz == Len(s)
    IN  UNION { IF value <= cur /\ sz % 2 = 0 THEN Decr(s, it)
                ELSE IF value >= cur /\ sz % 2 # 0 THEN Incr(s, it)
                ELSE {it} : cur \in Deref(s, it) }

\* The cursor move of insertToSorted, lines 53-61: the positions the cursor
\* may have after the move, from the position it after the node was linked in.
InsertMove(s, it, value) ==
    LET sz == Len(s)
    IN  UNION { IF value < cur /\ sz % 2 = 0 THEN Decr(s, it)
                ELSE IF value >= cur /\ sz % 2 # 0 THEN Incr(s, it)
                ELSE {it} : cur \in Deref(s, it) }

\* A slip: > for >= in the second test, which leaves the cursor on the entry
\* that is erased when the median itself is evicted.
EraseMove_Gt(s, it, value) ==
    LET sz == Len(s)
    IN  UNION { IF value <= cur /\ sz % 2 = 0 THEN Incr(s, it)
                ELSE IF value > cur /\ sz % 2 # 0 THEN Decr(s, it)
                ELSE {it} : cur \in Deref(s, it) }

\* A slip: the parity of the size after the removal instead of before it.
EraseMove_PostSize(s, it, value) ==
    LET sz == Len(s) - 1
    IN  UNION { IF value <= cur /\ sz % 2 = 0 THEN Incr(s, it)
                ELSE IF value >= cur /\ sz % 2 # 0 THEN Decr(s, it)
                ELSE {it} : cur \in Deref(s, it) }

\* A slip: < for <= in the first test, which leaves the cursor on an entry
\* equal to the erased value.
EraseMove_Lt(s, it, value) ==
    LET sz == Len(s)
    IN  UNION { IF value < cur /\ sz % 2 = 0 THEN Incr(s, it)
                ELSE IF value >= cur /\ sz % 2 # 0 THEN Decr(s, it)
                ELSE {it} : cur \in Deref(s, it) }

\* The cursor move of eraseFromSorted, lines 69-81.
EraseMove(s, it, value) ==
    LET sz == Len(s)
    IN  UNION { IF value <= cur /\ sz % 2 = 0 THEN Incr(s, it)
                ELSE IF value >= cur /\ sz % 2 # 0 THEN Decr(s, it)
                ELSE {it} : cur \in Deref(s, it) }

\* insert, line 103
InsertCall(value) ==
    /\ pc = "idle"
    /\ CanFeed(value)
    /\ _window' = Append(_window, value)
    /\ vals' = Append(vals, value)
    /\ ret' = NoRet
    /\ pc' = "pushed"
    /\ UNCHANGED <<_windowSize, _sortedValues, _itMedian>>

\* insert, line 104: insertToSorted(value)
InsertToSorted ==
    /\ pc = "pushed"
    /\ LET value == _window[Len(_window)]
           p     == UpperBound(_sortedValues, value)
           s     == InsertAt(_sortedValues, p, value)
           it    == ShiftOnInsert(_itMedian, p)
       IN  /\ _sortedValues' = s
           /\ IF Len(s) = 1
              THEN _itMedian' = 1
              ELSE _itMedian' \in InsertMove(s, it, value)
    /\ pc' = "inserted"
    /\ UNCHANGED <<_windowSize, _window, vals, ret>>

\* insert, line 105 not taken: insert returns
InsertReturn ==
    /\ pc = "inserted"
    /\ ~ExceedsWindow(Len(_window), _windowSize)
    /\ pc' = "idle"
    /\ UNCHANGED <<_windowSize, _window, _sortedValues, _itMedian, vals, ret>>

\* insert, line 106: eraseFromSorted(_window.front()), lines 69-81
EraseReposition ==
    /\ pc = "inserted"
    /\ ExceedsWindow(Len(_window), _windowSize)
    /\ _itMedian' \in EraseMove(_sortedValues, _itMedian, Head(_window))
    /\ pc' = "repositioned"
    /\ UNCHANGED <<_windowSize, _window, _sortedValues, vals, ret>>

\* eraseFromSorted, lines 84-85
EraseRemove ==
    /\ pc = "repositioned"
    /\ LET r == Find(_sortedValues, Head(_window))
       IN  /\ _sortedValues' = Erase(_sortedValues, r)
           /\ _itMedian' = ShiftOnErase(_itMedian, r)
    /\ pc' = "erased"
    /\ UNCHANGED <<_windowSize, _window, vals, ret>>

\* A slip: pop_back for pop_front.
PopFrontOf_Back(w) == SubSeq(w, 1, Len(w) - 1)

\* std::list::pop_front
PopFrontOf(w) == Tail(w)

\* insert, line 107: _window.pop_front(), and insert returns
PopFront ==
    /\ pc = "erased"
    /\ _window' = PopFrontOf(_window)
    /\ pc' = "idle"
    /\ UNCHANGED <<_windowSize, _sortedValues, _itMedian, vals, ret>>

\* A slip: the lower median for an even size, without the average.
MedianOf_Lower(s, it) == {IntToFloat(a) : a \in Deref(s, it)}

\* The floats getMedian may return, lines 116-119.
MedianOf(s, it) ==
    IF Len(s) % 2 # 0
    THEN {IntToFloat(a) : a \in Deref(s, it)}
    ELSE {AddF(HalfF(a), HalfF(b)) : a \in Deref(s, it), b \in Deref(s, NextIt(s, it))}

\* getMedian
GetMedian ==
    /\ pc = "idle"
    /\ \E f \in MedianOf(_sortedValues, _itMedian) : ret' = Returned(f)
    /\ UNCHANGED <<_windowSize, _window, _sortedValues, _itMedian, pc, vals>>

RECURSIVE ListSort(_)
\* std::list::sort
ListSort(s) ==
    IF s = <<>> THEN <<>>
    ELSE LET m == CHOOSE i \in 1 .. Len(s) : \A j \in 1 .. Len(s) : s[i] <= s[j]
         IN  <<s[m]>> \o ListSort(RemoveAt(s, m))

\* getMedianNaive, lines 127-133: the floats it may return.
MedianNaiveOf(w) ==
    LET window == ListSort(w)
        sz     == Len(window)
    IN  IF sz % 2 # 0
        THEN {IntToFloat(median) : median \in Deref(window, sz \div 2 + 1)}
        ELSE {AddF(HalfF(median), HalfF(b)) :
                  median \in Deref(window, sz \div 2 + 1), b \in Deref(window, sz \div 2)}

\* insertToSorted reads or steps through an iterator it must not use.
InsertMoveUndefined(s, it, value) ==
    IF Dereferenceable(s, it)
    THEN it = 1 /\ value < s[it] /\ Len(s) % 2 = 0
    ELSE TRUE

\* eraseFromSorted reads or steps through an iterator it must not use.
EraseMoveUndefined(s, it, value) ==
    IF Dereferenceable(s, it)
    THEN it = 1 /\ value >= s[it] /\ Len(s) % 2 # 0
    ELSE TRUE

\* getMedian reads through an iterator it must not read through.
MedianUndefined(s, it) ==
    IF Dereferenceable(s, it)
    THEN Len(s) % 2 = 0 /\ ~Dereferenceable(s, NextIt(s, it))
    ELSE TRUE

\* The statement the program is at has undefined behaviour.
UsesInvalidIterator ==
    CASE pc = "pushed" ->
             /\ _sortedValues # <<>>
             /\ LET value == _window[Len(_window)]
                    p     == UpperBound(_sortedValues, value)
                IN  InsertMoveUndefined(InsertAt(_sortedValues, p, value),
                                        ShiftOnInsert(_itMedian, p), value)
      [] pc = "inserted" ->
             /\ ExceedsWindow(Len(_window), _windowSize)
             /\ EraseMoveUndefined(_sortedValues, _itMedian, Head(_window))
      [] pc = "idle" -> MedianUndefined(_sortedValues, _itMedian)
      [] OTHER -> FALSE

\* One outcome of undefined behaviour: the process is killed.
Crash ==
    /\ UsesInvalidIterator
    /\ pc' = "crashed"
    /\ UNCHANGED <<_windowSize, _window, _sortedValues, _itMedian, vals, ret>>

Next ==
    \/ \E value \in FeedValues : InsertCall(value)
    \/ InsertToSorted
    \/ InsertReturn
    \/ EraseReposition
    \/ EraseRemove
    \/ PopFront
    \/ GetMedian
    \/ Crash

Spec == Init /\ [][Next]_vars

(***************************************************************************)
(* Properties                                                              *)
(***************************************************************************)
k == Len(vals)
n == Len(_sortedValues)
Min(a, b) == IF a < b THEN a ELSE b
Count(s, v) == Cardinality({i \in 1 .. Len(s) : s[i] = v})
Elems(s) == {s[i] : i \in 1 .. Len(s)}
SameBag(s, t) == \A v \in Elems(s) \cup Elems(t) : Count(s, v) = Count(t, v)
IsSorted(s) == \A i \in 1 .. Len(s) - 1 : s[i] <= s[i + 1]
\* The 1-based position of sorted index floor((m - 1) / 2).
LowerMedian(m) == (m - 1) \div 2 + 1
\* insert has returned at least once, on a structure with a positive window.
InsertReturned == pc = "idle" /\ _windowSize >= 1 /\ k >= 1

\* C1: for W >= 1, after each insert returns, getMedian() returns what
\* getMedianNaive() returns, the median of the sorted window contents.
C1_MedianEqualsNaive ==
    InsertReturned => MedianOf(_sortedValues, _itMedian) = MedianNaiveOf(_window)

\* C2: for W >= 1, after every insertToSorted step and every eraseFromSorted
\* step, _itMedian is at sorted index floor((n-1)/2) of _sortedValues.
C2_CursorAtLowerMedian ==
    (_windowSize >= 1 /\ pc \in {"inserted", "erased", "idle"} /\ n >= 1)
        => _itMedian = LowerMedian(n)

\* C3: for W >= 1, after the k-th insert returns, _sortedValues and _window
\* both hold min(k, W) values.
C3_SizeConsistency ==
    (pc = "idle" /\ _windowSize >= 1)
        => /\ Len(_sortedValues) = Min(k, _windowSize)
           /\ Len(_window) = Min(k, _windowSize)

C3_Witness ==
    /\ pc = "idle" /\ _windowSize = 3 /\ k = 5
    /\ Len(_window) = 3 /\ Len(_sortedValues) = 3

\* C4: for W >= 1, after every insert returns _sortedValues is sorted and is
\* the same bag as _window; the eviction removes exactly one entry, whose
\* value is the value at the head of the window.
C4_BagEquality ==
    _windowSize >= 1 =>
        /\ pc \in {"idle", "repositioned"}
              => IsSorted(_sortedValues) /\ SameBag(_sortedValues, _window)
        /\ pc = "erased"
              => /\ IsSorted(_sortedValues)
                 /\ Len(_sortedValues) = Len(_window) - 1
                 /\ \A v \in Elems(_window) :
                        Count(_window, v)
                            = Count(_sortedValues, v) + (IF v = Head(_window) THEN 1 ELSE 0)

C4_Witness ==
    /\ pc = "erased" /\ _windowSize = 3
    /\ Count(_window, Head(_window)) = 2
    /\ Count(_sortedValues, Head(_window)) = 1

\* C5: for W >= 1, after the k-th insert returns, _window is the last
\* min(k, W) values of the stream in arrival order; the value an insert
\* evicts is s_(k-W), an entry other than the one just appended.
C5_FifoWindow ==
    _windowSize >= 1 =>
        /\ pc = "idle" => _window = SubSeq(vals, k - Min(k, _windowSize) + 1, k)
        /\ pc \in {"repositioned", "erased"}
              => /\ k > _windowSize
                 /\ Len(_window) = _windowSize + 1
                 /\ Head(_window) = vals[k - _windowSize]
        /\ (pc = "idle" /\ k > _windowSize)
              => Head(_window) = vals[k - _windowSize + 1]

C5_Witness ==
    /\ pc = "erased" /\ _windowSize = 2 /\ k = 4
    /\ Head(_window) = vals[2] /\ vals[2] # vals[4]

\* C6: for W >= 1, whenever the window population after an insert is even,
\* getMedian() is the mean of the values at sorted indices n/2 - 1 and n/2
\* of the window contents.
C6_EvenSize ==
    (InsertReturned /\ Len(_window) % 2 = 0)
        => LET sorted == ListSort(_window)
               h      == Len(_window) \div 2
           IN  MedianOf(_sortedValues, _itMedian)
                   = {AddF(HalfF(sorted[h]), HalfF(sorted[h + 1]))}

\* C7: for W >= 1, whenever the window population after an insert is odd,
\* getMedian() is the value at sorted index (n-1)/2 of the window contents.
C7_OddSize ==
    (InsertReturned /\ Len(_window) % 2 # 0)
        => MedianOf(_sortedValues, _itMedian)
               = {IntToFloat(ListSort(_window)[LowerMedian(Len(_window))])}

C7_Witness ==
    /\ pc = "idle" /\ _windowSize = 3 /\ k = 5
    /\ Count(_window, 3) = 2
    /\ ret = Returned(IntToFloat(3))

\* C8: a WindowedMedian with windowSize <= 0 is rejected at construction;
\* none is created and accepted for later insert or getMedian calls.
C8_NonPositiveRejected ==
    _windowSize <= 0 => pc = "rejected" /\ vals = <<>> /\ ret = NoRet

\* C9: getMedian() on a structure on which insert was never called fails
\* with EmptyStateError: it returns no value and reads no cursor.
C9_EmptyStateError ==
    vals = <<>> => pc # "crashed" /\ ret.kind \in {"none", "EmptyStateError"}

\* C10: for W >= 1, after each of the first W insertions of one and the same
\* value v into a new structure, getMedian() is v.
C10_Duplicates ==
    (InsertReturned /\ k <= _windowSize /\ \A i \in 1 .. k : vals[i] = vals[1])
        => MedianOf(_sortedValues, _itMedian) = {IntToFloat(vals[1])}

C10_Witness ==
    /\ pc = "idle" /\ _windowSize = 4 /\ k = 4
    /\ \A i \in 1 .. k : vals[i] = 16777217
    /\ ret = Returned(IntToFloat(16777217))

\* The stream of main(), line 165, and of main(), line 167.
Stream165 == <<9, 8, 7, 6, 5, 4, 5, 6>>
Stream167 == <<3, 3, 3, 3, -7, 3, 3, 3, 3>>
\* insert has returned on WindowedMedian(w) fed a non-empty prefix of stream.
AfterPrefix(w, stream) ==
    pc = "idle" /\ _windowSize = w /\ k >= 1 /\ IsPrefix(vals, stream)

\* C11 as stated: with W = 4 and the stream [9,8,7,6,5,4,5,6], getMedian()
\* after each insertion reads [9, 8.5, 8, 7, 6.5, 5.5, 5, 5].
C11_Scenario_Original ==
    AfterPrefix(4, Stream165)
        => MedianOf(_sortedValues, _itMedian)
               = {<< <<9, 0>>, <<8, 1>>, <<8, 0>>, <<7, 0>>,
                     <<6, 1>>, <<5, 1>>, <<5, 0>>, <<5, 0>> >>[k]}

\* C11, amended: with W = 4 and the stream [9,8,7,6,5,4,5,6], getMedian()
\* after each insertion reads [9, 8.5, 8, 7.5, 6.5, 5.5, 5, 5].
C11_Scenario ==
    AfterPrefix(4, Stream165)
        => MedianOf(_sortedValues, _itMedian)
               = {<< <<9, 0>>, <<8, 1>>, <<8, 0>>, <<7, 1>>,
                     <<6, 1>>, <<5, 1>>, <<5, 0>>, <<5, 0>> >>[k]}

C11_Witness ==
    /\ pc = "idle" /\ _windowSize = 4 /\ vals = Stream165
    /\ ret = Returned(<<5, 0>>)

\* C12: with W = 3 and the stream [3,3,3,3,-7,3,3,3,3], getMedian() after
\* each of the nine insertions is 3.
C12_Scenario ==
    AfterPrefix(3, Stream167) => MedianOf(_sortedValues, _itMedian) = {<<3, 0>>}

C12_Witness ==
    /\ pc = "idle" /\ _windowSize = 3 /\ vals = Stream167
    /\ ret = Returned(<<3, 0>>)

\* C13: getMedian() is a pure query: in every reachable state with at least
\* one element a call leaves _window, _sortedValues and the cursor unchanged,
\* and the calls made between two inserts all return the same value.
C13_PureQuery ==
    [][(pc = "idle" /\ n >= 1 /\ pc' # "pushed")
           => /\ pc' = "idle"
              /\ UNCHANGED <<_window, _sortedValues, _itMedian>>
              /\ ret.kind = "value" => ret' = ret]_vars

\* C14: in every eraseFromSorted step the entry that find locates and erase
\* removes is another entry than the one the repositioned cursor denotes, so
\* that the cursor denotes an entry of _sortedValues whenever there is one.
C14_PositionalRemoval ==
    _windowSize >= 1 =>
        /\ pc = "repositioned" => Find(_sortedValues, Head(_window)) # _itMedian
        /\ n >= 1 => Dereferenceable(_sortedValues, _itMedian)

\* C15: from a state in which the cursor is at sorted index floor((m-1)/2) of
\* m >= 1 entries, insertToSorted of any value (placed after the entries equal
\* to it) leaves the cursor at sorted index floor(m/2) of the m+1 entries; the
\* first insertion leaves it on the single entry.
C15_InsertionStep ==
    [][(pc = "pushed" /\ pc' = "inserted" /\ (n = 0 \/ _itMedian = LowerMedian(n)))
           => LET value == _window[Len(_window)]
              IN  /\ _itMedian' = LowerMedian(n + 1)
                  /\ \E p \in 1 .. n + 1 :
                         /\ _sortedValues' = InsertAt(_sortedValues, p, value)
                         /\ \A i \in 1 .. p - 1 : _sortedValues[i] <= value
                         /\ \A i \in p .. n : _sortedValues[i] > value]_vars

C15_Witness ==
    /\ pc = "inserted" /\ _windowSize = 4 /\ k = 4 /\ n = 4
    /\ _itMedian = 2
    /\ _window[4] < _sortedValues[3]
    /\ _sortedValues[3] = _sortedValues[4]

\* C16: an insert that evicts appends to the window, inserts into the
\* multiset, repositions the cursor, removes from the multiset and pops the
\* window head, in this order; the repositioning is decided by the size n and
\* the cursor's value cur before the removal: to the successor iff
\* value <= cur and n is even, to the predecessor iff n is odd and
\* value >= cur, no move otherwise.  (Where the cursor is on the first entry
\* there is no predecessor, and the formula does not say where it goes.)
C16_EvictionOrder ==
    [][/\ (pc = "idle" /\ pc' # "idle" /\ pc' # "crashed")
              => /\ pc' = "pushed"
                 /\ Len(_window') = Len(_window) + 1
                 /\ SubSeq(_window', 1, Len(_window)) = _window
                 /\ UNCHANGED <<_sortedValues, _itMedian>>
       /\ (pc = "pushed" /\ pc' # "crashed")
              => /\ pc' = "inserted"
                 /\ Len(_sortedValues') = n + 1
                 /\ UNCHANGED _window
       /\ (pc = "inserted" /\ pc' = "repositioned")
              => /\ UNCHANGED <<_window, _sortedValues>>
                 /\ Dereferenceable(_sortedValues, _itMedian)
                        => LET value == Head(_window)
                               cur   == _sortedValues[_itMedian]
                           IN  IF value <= cur /\ n % 2 = 0
                               THEN _itMedian' = _itMedian + 1
                               ELSE IF n % 2 # 0 /\ value >= cur
                               THEN _itMedian > 1 => _itMedian' = _itMedian - 1
                               ELSE _itMedian' = _itMedian
       /\ pc = "repositioned"
              => /\ pc' = "erased"
                 /\ Len(_sortedValues') = n - 1
                 /\ UNCHANGED _window
       /\ pc = "erased"
              => /\ pc' = "idle"
                 /\ _window' = Tail(_window)
                 /\ UNCHANGED <<_sortedValues, _itMedian>>]_vars

C16_Witness ==
    /\ pc = "repositioned" /\ _windowSize = 4 /\ k = 5 /\ n = 5
    /\ _itMedian = 2
    /\ Head(_window) > _sortedValues[3]

\* C17: for W >= 1 an insert evicts iff more than W values have been inserted
\* so far, evicts once at most, and every eviction starts from W+1 entries:
\* _sortedValues and _window never hold more than W+1 values, and the size
\* eraseFromSorted sees has the parity of W+1.
C17_EvictionFromFullWindow ==
    [][_windowSize >= 1 =>
           /\ Len(_sortedValues') <= _windowSize + 1
           /\ Len(_window') <= _windowSize + 1
           /\ (pc = "inserted" /\ pc' # "crashed")
                  => /\ pc' = "repositioned" <=> k > _windowSize
                     /\ pc' = "idle" <=> k <= _windowSize
           /\ pc' = "repositioned"
                  => /\ Len(_sortedValues') = _windowSize + 1
                     /\ Len(_sortedValues') % 2 = (_windowSize + 1) % 2
           /\ pc = "repositioned" => Len(_sortedValues') = _windowSize
           /\ pc = "erased" => pc' = "idle" /\ Len(_window') = _windowSize]_vars

C17_Witness ==
    /\ pc = "repositioned" /\ _windowSize = 2 /\ k = 5
    /\ n = 3 /\ Len(_window) = 3

\* C18: for odd W >= 1 and every stream, the cursor is at sorted index
\* floor((n-1)/2) after every insert, every eviction runs with an even size,
\* and the entry it removes is never the entry the cursor denotes.
C18_OddWindow ==
    (_windowSize >= 1 /\ _windowSize % 2 = 1) =>
        /\ (pc \in {"inserted", "erased", "idle"} /\ n >= 1)
               => _itMedian = LowerMedian(n)
        /\ pc = "repositioned"
               => /\ n % 2 = 0
                  /\ Dereferenceable(_sortedValues, _itMedian)
                  /\ Find(_sortedValues, Head(_window)) # _itMedian

C18_Witness ==
    /\ pc = "repositioned" /\ _windowSize = 3 /\ k = 6
    /\ Head(_window) = _sortedValues[_itMedian]
    /\ Count(_sortedValues, Head(_window)) >= 3

\* The stream of main(), lines 169-170.
Stream169 == <<470211272, 101027544, 1457850878, 1458777923, 2007237709,
               823564440, 1115438165, 1784484492, 74243042, 114807987>>
Distinct(s) == \A i, j \in 1 .. Len(s) : i # j => s[i] # s[j]

\* C19: for every W >= 1 and every stream of pairwise distinct values,
\* getMedian() equals getMedianNaive() after every insert, and the cursor is
\* at sorted index floor((n-1)/2) after every insertion and eviction step.
C19_DistinctValues ==
    (_windowSize >= 1 /\ Distinct(vals)) =>
        /\ (pc = "idle" /\ k >= 1)
               => MedianOf(_sortedValues, _itMedian) = MedianNaiveOf(_window)
        /\ (pc \in {"inserted", "erased", "idle"} /\ n >= 1)
               => _itMedian = LowerMedian(n)

C19_Witness ==
    /\ pc = "idle" /\ _windowSize = 6 /\ vals = Stream169
    /\ ret.kind = "value"
    /\ ret.val \in MedianNaiveOf(_window)
====
